---- MODULE Spec2Model ----
(***************************************************************************)
(* A model of download_podcast (src/download_podcast.go): the feed scanner *)
(* getItems, the per-item orchestrator downloadItem with its helpers       *)
(* escape, touch and download, and the loop of main.                       *)
(*                                                                         *)
(* Strings are sequences of one-character strings, so that path.Base,      *)
(* url.PathEscape, filepath.Ext, strconv.Itoa and the episode-id regular   *)
(* expression are computed character by character as the code does.        *)
(*                                                                         *)
(* The destination directory is modelled by four variables:                *)
(*   dest      files directly in destDir (name -> what they hold)          *)
(*   seenTop   regular files directly in destDir/.seen (legacy markers)    *)
(*   feedDirs  directories directly in destDir/.seen (one per feed)        *)
(*   seenCur   files destDir/.seen/<escaped feed>/<escaped guid>           *)
(* The names used in the model contain no path separator after escaping    *)
(* and are never "." or "..", so filepath.Join leaves them as they are.    *)
(***************************************************************************)
EXTENDS Integers, Sequences, FiniteSets, TLC

\* const maxFilenameLen (src/download_podcast.go:28)
maxFilenameLen == 255

\* ----------------------------------------------------------------- bounds
\* number of program runs against the same destination directory
MaxRuns == 2
\* number of item containers in a generated feed document (scanner)
MaxFeedItems == 2

\* ---------------------------------------------------------------- strings
Min(S) == CHOOSE x \in S : \A y \in S : x <= y
Max(S) == CHOOSE x \in S : \A y \in S : x >= y

\* strings.IndexByte: 0-based index of the first c in s, -1 if there is none
IndexByte(s, c) ==
    LET hits == {k \in 1..Len(s) : s[k] = c}
    IN  IF hits = {} THEN -1 ELSE Min(hits) - 1

\* path.Base: "" gives ".", trailing slashes are stripped, the text after the
\* last slash is kept, and a path of slashes only gives "/"
pathBase(p) ==
    IF p = <<>> THEN <<".">>
    ELSE LET keep  == {k \in 1..Len(p) : p[k] # "/"}
             q     == IF keep = {} THEN <<>> ELSE SubSeq(p, 1, Max(keep))
             slash == {k \in 1..Len(q) : q[k] = "/"}
             r     == IF slash = {} THEN q ELSE SubSeq(q, Max(slash) + 1, Len(q))
         IN  IF r = <<>> THEN <<"/">> ELSE r

\* filepath.Ext: the suffix from the final dot of the final path element
filepathExt(p) ==
    LET dots == {k \in 1..Len(p) : p[k] = "." /\ \A j \in k..Len(p) : p[j] # "/"}
    IN  IF dots = {} THEN <<>> ELSE SubSeq(p, Max(dots), Len(p))

Digits == <<"0", "1", "2", "3", "4", "5", "6", "7", "8", "9">>

\* strconv.Itoa for i >= 0
RECURSIVE Itoa(_)
Itoa(i) ==
    IF i < 10 THEN <<Digits[i + 1]>>
    ELSE Itoa(i \div 10) \o <<Digits[(i % 10) + 1]>>

\* url.PathEscape on one character: letters, digits and - _ . ~ $ & + = : @
\* stay; every other character becomes %XX
escapeChar(c) ==
    CASE c = "/" -> <<"%", "2", "F">>
      [] c = "?" -> <<"%", "3", "F">>
      [] c = "%" -> <<"%", "2", "5">>
      [] c = " " -> <<"%", "2", "0">>
      [] c = ";" -> <<"%", "3", "B">>
      [] c = "," -> <<"%", "2", "C">>
      [] OTHER   -> <<c>>

\* url.PathEscape: the escapes of the characters of s, one after the other
\* (those of the first half of s, then those of the second half)
RECURSIVE PathEscape(_)
PathEscape(s) ==
    IF s = <<>> THEN <<>>
    ELSE IF Len(s) = 1 THEN escapeChar(s[1])
    ELSE LET h == Len(s) \div 2
         IN  PathEscape(SubSeq(s, 1, h)) \o PathEscape(SubSeq(s, h + 1, Len(s)))

\* escape (src/download_podcast.go:205): PathEscape, cut to maxFilenameLen
escape(fn) ==
    LET esc == PathEscape(fn)
    IN  IF Len(esc) > maxFilenameLen THEN SubSeq(esc, 1, maxFilenameLen) ELSE esc

HexDigits == {"0", "1", "2", "3", "4", "5", "6", "7", "8", "9",
              "a", "b", "c", "d", "e", "f"}

EpisodesSlash == <<"/", "e", "p", "i", "s", "o", "d", "e", "s", "/">>

\* whether the 36 characters of u from position k are 8-4-4-4-12 hex digits
IsUUIDAt(u, k) ==
    /\ k + 35 <= Len(u)
    /\ \A j \in 0..35 :
          IF j \in {8, 13, 18, 23} THEN u[k + j] = "-" ELSE u[k + j] \in HexDigits

\* episodeIDRegexp.FindStringSubmatch(u): the UUID of the leftmost match of
\* /episodes/<UUID>/, or <<>> when there is no match (m == nil)
episodeIDRegexp(u) ==
    LET at == {k \in 1..Len(u) :
                  /\ k + 46 <= Len(u)
                  /\ SubSeq(u, k, k + 9) = EpisodesSlash
                  /\ IsUUIDAt(u, k + 10)
                  /\ u[k + 46] = "/"}
    IN  IF at = {} THEN <<>> ELSE SubSeq(u, Min(at) + 10, Min(at) + 45)

\* ---------------------------------------------------------------- scanner
\* A token of the decoder: k is StartElement, EndElement or CharData; name is
\* Name.Local; attr is the attribute list (pairs <<local name, value>>).
StartElement(n, a) == [k |-> "StartElement", name |-> n, attr |-> a, data |-> <<>>]
EndElement(n)      == [k |-> "EndElement", name |-> n, attr |-> <<>>, data |-> <<>>]
CharData(d)        == [k |-> "CharData", name |-> "", attr |-> <<>>, data |-> d]

\* the scanner's locals (src/download_podcast.go:66-68)
scanInit ==
    [items |-> <<>>, inGUID |-> FALSE, inTitle |-> FALSE,
     guid |-> <<>>, title |-> <<>>, url |-> <<>>]

\* lines 90-95: the value of the first attribute named url, else cur
attrURL(attr, cur) ==
    LET hits == {k \in 1..Len(attr) : attr[k][1] = "url"}
    IN  IF hits = {} THEN cur ELSE attr[Min(hits)][2]

\* scanStart that keeps the pending guid, title and url at an item start tag
scanStartNoReset(s, t) ==
    IF t.name = "guid" THEN [s EXCEPT !.inGUID = TRUE]
    ELSE IF t.name = "title" THEN [s EXCEPT !.inTitle = TRUE]
    ELSE IF t.name \in {"media:content", "enclosure"}
         THEN [s EXCEPT !.url = attrURL(t.attr, s.url)]
    ELSE s

\* lines 79-96: case xml.StartElement
scanStart(s, t) ==
    IF t.name = "item" THEN [s EXCEPT !.guid = <<>>, !.title = <<>>, !.url = <<>>]
    ELSE IF t.name = "guid" THEN [s EXCEPT !.inGUID = TRUE]
    ELSE IF t.name = "title" THEN [s EXCEPT !.inTitle = TRUE]
    ELSE IF t.name \in {"media:content", "enclosure"}
         THEN [s EXCEPT !.url = attrURL(t.attr, s.url)]
    ELSE s

\* scanEnd that emits the captured guid as it is, without the url fallback
scanEndNoFallback(s, t) ==
    IF t.name = "item"
    THEN IF s.url # <<>>
         THEN [s EXCEPT !.items = Append(s.items,
                                [guid |-> s.guid, url |-> s.url, title |-> s.title])]
         ELSE s
    ELSE IF t.name = "guid" THEN [s EXCEPT !.inGUID = FALSE]
    ELSE IF t.name = "title" THEN [s EXCEPT !.inTitle = FALSE]
    ELSE s

\* scanEnd that emits an item only when a guid was captured
scanEndNeedsGuid(s, t) ==
    IF t.name = "item"
    THEN IF s.url # <<>> /\ s.guid # <<>>
         THEN [s EXCEPT !.items = Append(s.items,
                                [guid |-> s.guid, url |-> s.url, title |-> s.title])]
         ELSE s
    ELSE IF t.name = "guid" THEN [s EXCEPT !.inGUID = FALSE]
    ELSE IF t.name = "title" THEN [s EXCEPT !.inTitle = FALSE]
    ELSE s

\* lines 98-111: case xml.EndElement
scanEnd(s, t) ==
    IF t.name = "item"
    THEN IF s.url # <<>>
         THEN LET g == IF s.guid = <<>> THEN s.url ELSE s.guid
              IN  [s EXCEPT !.guid = g,
                            !.items = Append(s.items,
                                [guid |-> g, url |-> s.url, title |-> s.title])]
         ELSE s
    ELSE IF t.name = "guid" THEN [s EXCEPT !.inGUID = FALSE]
    ELSE IF t.name = "title" THEN [s EXCEPT !.inTitle = FALSE]
    ELSE s

\* lines 113-119: case xml.CharData
scanChars(s, t) ==
    IF s.inGUID THEN [s EXCEPT !.guid = t.data]
    ELSE IF s.inTitle THEN [s EXCEPT !.title = t.data]
    ELSE s

\* lines 78-120: the switch on the token's type
scanToken(s, t) ==
    IF t.k = "StartElement" THEN scanStart(s, t)
    ELSE IF t.k = "EndElement" THEN scanEnd(s, t)
    ELSE scanChars(s, t)

\* the token loop returning the items gathered so far along with the error
RECURSIVE scanLoopPartial(_, _, _, _)
scanLoopPartial(d, p, s, errAt) ==
    IF errAt = p THEN [items |-> s.items, err |-> TRUE]
    ELSE IF p > Len(d) THEN [items |-> s.items, err |-> FALSE]
    ELSE scanLoopPartial(d, p + 1, scanToken(s, d[p]), errAt)

\* lines 70-123: the token loop from position p; errAt is the position at
\* which d.Token fails with an error other than io.EOF (0: it never does)
RECURSIVE scanLoop(_, _, _, _)
scanLoop(d, p, s, errAt) ==
    IF errAt = p THEN [items |-> <<>>, err |-> TRUE]
    ELSE IF p > Len(d) THEN [items |-> s.items, err |-> FALSE]
    ELSE scanLoop(d, p + 1, scanToken(s, d[p]), errAt)

\* openURL (lines 43-52): open is "ok", "neterr" (http.Get fails) or
\* "status" (a status code other than 200)
openURL(open) == [err |-> open # "ok"]

\* getItems (lines 56-124) on the document d served for the feed
getItems(d, open, errAt) ==
    IF openURL(open).err THEN [items |-> <<>>, err |-> TRUE]
    ELSE scanLoop(d, 1, scanInit, errAt)

OpenOutcomes == {"ok", "neterr", "status"}

\* ------------------------------------- the scanner of the earlier revision
\* src/unnamed/part_002, lines 68-72: the locals of its getItems
scanInitPart002 ==
    [items |-> <<>>, seenURLs |-> {}, title |-> <<>>, inTitle |-> FALSE]

\* src/unnamed/part_002, lines 84-112: one token. An enclosure with a url
\* attribute not seen before is appended at once with the pending title,
\* which is then cleared.
scanTokenPart002(s, t) ==
    IF t.k = "StartElement"
    THEN IF t.name \in {"media:content", "enclosure"}
         THEN LET hits == {k \in 1..Len(t.attr) : t.attr[k][1] = "url"}
                  u    == t.attr[Min(hits)][2]
              IN  IF hits = {} \/ u \in s.seenURLs THEN s
                  ELSE [s EXCEPT !.items = Append(s.items, [url |-> u, title |-> s.title]),
                                 !.seenURLs = s.seenURLs \cup {u},
                                 !.title = <<>>]
         ELSE IF t.name = "title" THEN [s EXCEPT !.inTitle = TRUE]
         ELSE s
    ELSE IF t.k = "EndElement"
    THEN IF t.name = "title" THEN [s EXCEPT !.inTitle = FALSE] ELSE s
    ELSE IF s.inTitle THEN [s EXCEPT !.title = t.data] ELSE s

\* src/unnamed/part_002, lines 76-115: the token loop to the end of input
RECURSIVE getItemsPart002(_, _, _)
getItemsPart002(d, p, s) ==
    IF p > Len(d) THEN s.items
    ELSE getItemsPart002(d, p + 1, scanTokenPart002(s, d[p]))

\* ------------------------------------------------------- feed documents
U1 == <<"h", "/", "a", ".", "m">>
U2 == <<"h", "/", "b", ".", "m", "?", "q">>
U3 == <<"k", "/", "a", ".", "m">>
U4 == <<"k", "/", "c", ".", "m">>
U5 == <<"h", "/", "?", "q">>
G1 == <<"g", "1">>
G2 == <<"g", "2">>
G3 == <<"g", "3">>
T1 == <<"T">>
\* an episode URL h/episodes/<UUID>/d.m?q, the same without the slash after
\* the UUID, a URL whose query holds a slash, and a URL ending in ..
VendorID == <<"0", "1", "2", "3", "4", "5", "6", "7", "-", "8", "9", "a", "b", "-",
              "c", "d", "e", "f", "-", "0", "1", "2", "3", "-",
              "4", "5", "6", "7", "8", "9", "a", "b", "c", "d", "e", "f">>
UV == <<"h">> \o EpisodesSlash \o VendorID \o <<"/", "d", ".", "m", "?", "q">>
UNV == <<"h">> \o EpisodesSlash \o VendorID
UQ == <<"h", "/", "a", ".", "m", "?", "x", "=", "/", "b">>
UDots == <<"h", "/", ".", ".">>
\* two guids of maxFilenameLen + 1 characters that differ in the last one
GL1 == [k \in 1..maxFilenameLen |-> "g"] \o <<"1">>
GL2 == [k \in 1..maxFilenameLen |-> "g"] \o <<"2">>
ChannelTitle == <<"C">>

\* One item container: optional title, optional enclosure (enc is "none",
\* "nourl" for an enclosure without a url attribute, or "url" for one whose
\* url attribute is u), optional guid
Shape(t, g, e, u) == [title |-> t, guid |-> g, enc |-> e, url |-> u]

renderItem(sh) ==
    <<StartElement("item", <<>>)>>
    \o (IF sh.title = <<>> THEN <<>>
        ELSE <<StartElement("title", <<>>), CharData(sh.title), EndElement("title")>>)
    \o (IF sh.enc = "none" THEN <<>>
        ELSE IF sh.enc = "nourl"
             THEN <<StartElement("enclosure", << <<"type", <<"m">> >> >>),
                    EndElement("enclosure")>>
             ELSE <<StartElement("enclosure",
                        << <<"type", <<"m">> >>, <<"url", sh.url>> >>),
                    EndElement("enclosure")>>)
    \o (IF sh.guid = <<>> THEN <<>>
        ELSE <<StartElement("guid", <<>>), CharData(sh.guid), EndElement("guid")>>)
    \o <<EndElement("item")>>

RECURSIVE renderItems(_)
renderItems(shs) ==
    IF shs = <<>> THEN <<>> ELSE renderItem(Head(shs)) \o renderItems(Tail(shs))

\* an RSS document: the channel with its own title, then the items
renderFeed(shs) ==
    <<StartElement("rss", <<>>), StartElement("channel", <<>>),
      StartElement("title", <<>>), CharData(ChannelTitle), EndElement("title")>>
    \o renderItems(shs)
    \o <<EndElement("channel"), EndElement("rss")>>

\* the same elements as flat siblings, without item containers: for each
\* shape its title, if any, then its enclosure, if any
renderFlatItem(sh) ==
    (IF sh.title = <<>> THEN <<>>
     ELSE <<StartElement("title", <<>>), CharData(sh.title), EndElement("title")>>)
    \o (IF sh.enc = "none" THEN <<>>
        ELSE IF sh.enc = "nourl"
             THEN <<StartElement("enclosure", << <<"type", <<"m">> >> >>),
                    EndElement("enclosure")>>
             ELSE <<StartElement("enclosure",
                        << <<"type", <<"m">> >>, <<"url", sh.url>> >>),
                    EndElement("enclosure")>>)

RECURSIVE renderFlatItems(_)
renderFlatItems(shs) ==
    IF shs = <<>> THEN <<>>
    ELSE renderFlatItem(Head(shs)) \o renderFlatItems(Tail(shs))

\* a flat feed: the channel with its own title, then titles and enclosures
renderFlat(shs) ==
    <<StartElement("rss", <<>>), StartElement("channel", <<>>),
      StartElement("title", <<>>), CharData(ChannelTitle), EndElement("title")>>
    \o renderFlatItems(shs)
    \o <<EndElement("channel"), EndElement("rss")>>

\* the documents served for the shapes shs: with item containers, and, for
\* shapes without guid, also flat
DocsOf(shs) ==
    {renderFeed(shs)}
    \cup (IF \A k \in 1..Len(shs) : shs[k].guid = <<>> THEN {renderFlat(shs)} ELSE {})

ScanShapes ==
    {Shape(t, g, e, <<>>) : t \in {<<>>, T1}, g \in {<<>>, G1}, e \in {"none", "nourl"}}
    \cup {Shape(t, g, "url", u) : t \in {<<>>, T1}, g \in {<<>>, G1},
                                  u \in {U1, U2, U3, <<>>}}

SeqsUpTo(S, n) == UNION {[1..k -> S] : k \in 0..n}

\* --------------------------------------------------------------- state
VARIABLES
    \* scanner, step by step
    shapes,     \* the item containers of the document being scanned
    doc,        \* the token sequence the decoder yields
    pos,        \* index of the next token
    sc,         \* the scanner's locals
    scanPc,     \* "open", "loop" or "returned"
    ret,        \* what getItems returned: [items, err]
    \* orchestrator
    pc,         \* "idle" (no process running) or "loop" (in main's for loop)
    exit,       \* how the last run ended: "none", "ok" or "fatal"
    run,        \* number of runs started so far
    feed, prefix, skip, num,   \* the flags of the current run
    items,      \* what getItems returned to main
    i,          \* main's loop index (0-based, as in the code)
    calls,      \* the downloadItem calls of the current run, in order
    prev,       \* the run before the current one: feed, items, successful indices
    dest, seenTop, feedDirs, seenCur,   \* the destination directory
    completed,  \* history: (feed, guid) pairs whose download() returned nil
    recorded,   \* history: pairs of completed whose marker was then created
    failedDl,   \* history: (feed, item) whose download() returned an error
    skipMarked  \* history: (feed, item) marked by a run with skipDownload

scanVars == <<shapes, doc, pos, sc, scanPc, ret>>
fsVars   == <<dest, seenTop, feedDirs, seenCur>>
histVars == <<completed, recorded, failedDl, skipMarked>>
mainVars == <<pc, exit, run, feed, prefix, skip, num, items, i, calls, prev>>
vars     == <<scanVars, mainVars, fsVars, histVars>>

NoRun == [feed |-> <<>>, items |-> <<>>, num |-> -1, n |-> 0, ok |-> {}]
NoRet == [items |-> <<>>, err |-> FALSE]

mainIdle ==
    /\ pc = "idle" /\ exit = "none" /\ run = 0
    /\ feed = <<>> /\ prefix = <<>> /\ skip = FALSE /\ num = -1
    /\ items = <<>> /\ i = 0 /\ calls = <<>> /\ prev = NoRun
    /\ dest = <<>> /\ seenTop = {} /\ feedDirs = {} /\ seenCur = {}
    /\ completed = {} /\ recorded = {} /\ failedDl = {} /\ skipMarked = {}

\* ------------------------------------------------- scanner specification
InitScan ==
    /\ shapes \in SeqsUpTo(ScanShapes, MaxFeedItems)
    /\ doc \in DocsOf(shapes)
    /\ pos = 1
    /\ sc = scanInit
    /\ scanPc = "open"
    /\ ret = NoRet
    /\ mainIdle

\* lines 57-64: the feed is opened; a failure returns nil and the error
ScanOpen ==
    /\ scanPc = "open"
    /\ \E o \in OpenOutcomes :
          IF openURL(o).err
          THEN scanPc' = "returned" /\ ret' = [items |-> <<>>, err |-> TRUE]
          ELSE scanPc' = "loop" /\ ret' = ret
    /\ UNCHANGED <<shapes, doc, pos, sc, mainVars, fsVars, histVars>>

\* lines 71-120: one token is read and handled
ScanToken ==
    /\ scanPc = "loop" /\ pos <= Len(doc)
    /\ sc' = scanToken(sc, doc[pos])
    /\ pos' = pos + 1
    /\ UNCHANGED <<shapes, doc, scanPc, ret, mainVars, fsVars, histVars>>

\* lines 74-75: d.Token fails with an error other than io.EOF
ScanTokenError ==
    /\ scanPc = "loop"
    /\ scanPc' = "returned"
    /\ ret' = [items |-> <<>>, err |-> TRUE]
    /\ UNCHANGED <<shapes, doc, pos, sc, mainVars, fsVars, histVars>>

\* lines 72-73 and 123: io.EOF ends the loop and the items are returned
ScanEOF ==
    /\ scanPc = "loop" /\ pos > Len(doc)
    /\ scanPc' = "returned"
    /\ ret' = [items |-> sc.items, err |-> FALSE]
    /\ UNCHANGED <<shapes, doc, pos, sc, mainVars, fsVars, histVars>>

NextScan == ScanOpen \/ ScanToken \/ ScanTokenError \/ ScanEOF

SpecScan == InitScan /\ [][NextScan]_vars

\* ------------------------------------------------------- orchestrator
DotMp3 == <<".", "m", "p", "3">>

\* baseName without the case of the episode URLs
baseNamePlain(item) ==
    LET b0 == pathBase(item.url)
        q  == IndexByte(b0, "?")
    IN  IF q # -1 THEN SubSeq(b0, 1, q) ELSE b0

\* lines 132-145: the base filename of an item
baseName(item) ==
    LET b0 == pathBase(item.url)
        q  == IndexByte(b0, "?")
        b1 == IF q # -1 THEN SubSeq(b0, 1, q) ELSE b0
        m  == episodeIDRegexp(item.url)
    IN  IF m # <<>>
        THEN IF item.title # <<>> THEN item.title \o DotMp3 ELSE m \o DotMp3
        ELSE b1

\* badBase that refuses nothing
badBaseNever(base) == FALSE

\* line 147: the base filenames downloadItem refuses
badBase(base) == Len(base) = 0 \/ base = <<".">> \/ base = <<".", ".">>

\* seenPathOf that leaves the guid out of the marker's name
seenPathOfFeedOnly(f, guid) == <<escape(f), escape(f)>>

\* line 152: the current-format marker, as its components below destDir/.seen
seenPathOf(f, guid) == <<escape(f), escape(guid)>>

\* What can go wrong in one call of downloadItem: nothing, or one of its
\* system calls failing (after the first failure that is not ignored the
\* call returns, so one fault per call covers every outcome):
\*   mkdir       os.MkdirAll has to create a directory and cannot
\*   fetch       openURL fails (http.Get fails or the status is not 200)
\*   create      os.Create of the destination file fails
\*   copy        io.Copy fails part-way; the partial file stays
\*   close       f.Close of the destination file fails
\*   touch       os.Create of the marker fails
\*   touchclose  f.Close of the created marker fails
Faults == {"none", "mkdir", "fetch", "create", "copy", "close", "touch", "touchclose"}

\* line 153: os.MkdirAll(destDir/.seen/<name>): nil when the directory exists,
\* an error when a regular file is in the way or a directory cannot be made
MkdirAll(name, fault) ==
    IF name \in feedDirs THEN [err |-> FALSE, feedDirs |-> feedDirs]
    ELSE IF name \in seenTop \/ fault = "mkdir" THEN [err |-> TRUE, feedDirs |-> feedDirs]
    ELSE [err |-> FALSE, feedDirs |-> feedDirs \cup {name}]

\* line 161: os.Stat(p) == nil for a path below destDir/.seen, the
\* directories of .seen being dirs
Stat(p, dirs) ==
    IF Len(p) = 2 THEN p \in seenCur
    ELSE p[1] \in seenTop \/ p[1] \in dirs

\* touch that creates nothing and reports success
touchNothing(p, fault, cur) == [err |-> FALSE, seenCur |-> cur]

\* touch (lines 214-220), on the set cur of current-format markers
touch(p, fault, cur) ==
    IF fault = "touch" THEN [err |-> TRUE, seenCur |-> cur]
    ELSE [err |-> fault = "touchclose", seenCur |-> cur \cup {p}]

\* the file system after name holds v
WriteFile(name, v) ==
    [n \in (DOMAIN dest) \cup {name} |-> IF n = name THEN v ELSE dest[n]]

\* download that removes the destination file when the copy fails
downloadCleansUp(u, p, fault) ==
    IF fault = "fetch" THEN [err |-> TRUE, outcome |-> "fetcherr", dest |-> dest]
    ELSE IF fault = "create" THEN [err |-> TRUE, outcome |-> "createerr", dest |-> dest]
    ELSE IF fault = "copy" THEN [err |-> TRUE, outcome |-> "copyerr", dest |-> dest]
    ELSE IF fault = "close"
         THEN [err |-> TRUE, outcome |-> "closeerr",
               dest |-> WriteFile(p, [st |-> "full", src |-> u])]
    ELSE [err |-> FALSE, outcome |-> "ok",
          dest |-> WriteFile(p, [st |-> "full", src |-> u])]

\* download (lines 223-239): fetched says that openURL was called
download(u, p, fault) ==
    IF fault = "fetch" THEN [err |-> TRUE, outcome |-> "fetcherr", dest |-> dest]
    ELSE IF fault = "create" THEN [err |-> TRUE, outcome |-> "createerr", dest |-> dest]
    ELSE IF fault = "copy"
         THEN [err |-> TRUE, outcome |-> "copyerr",
               dest |-> WriteFile(p, [st |-> "partial", src |-> u])]
    ELSE IF fault = "close"
         THEN [err |-> TRUE, outcome |-> "closeerr",
               dest |-> WriteFile(p, [st |-> "full", src |-> u])]
    ELSE [err |-> FALSE, outcome |-> "ok",
          dest |-> WriteFile(p, [st |-> "full", src |-> u])]

\* lines 178: the candidate name with number k before the extension
numbered(pfx, base, k) ==
    LET ext   == filepathExt(base)
        start == SubSeq(base, 1, Len(base) - Len(ext))
    IN  pfx \o start \o Itoa(k) \o ext

\* destPathOf without the search for an unused name
destPathOfNoSuffix(pfx, base) == pfx \o base

\* lines 172-183: the destination name. The loop runs k = 0, 1, 2, ... while
\* k >= 0 and stops at the first unused name; with n files in the directory
\* one of the n + 1 first candidates is unused, and n is far below the
\* largest int.
destPathOf(pfx, base) ==
    IF (pfx \o base) \notin DOMAIN dest THEN pfx \o base
    ELSE LET free == {k \in 0..Cardinality(DOMAIN dest) :
                         numbered(pfx, base, k) \notin DOMAIN dest}
         IN  numbered(pfx, base, Min(free))

\* what one call of downloadItem returns and leaves behind
Result(o, e, fe, dn, dl, fd, cur, ds) ==
    [outcome |-> o, err |-> e, fetched |-> fe, destName |-> dn, downloaded |-> dl,
     feedDirs |-> fd, seenCur |-> cur, dest |-> ds]

\* markerPaths with the current-format marker looked up under the URL
\* instead of the guid
markerPathsByURL(item, f, base) ==
    <<seenPathOf(f, item.url), <<escape(item.url)>>, <<escape(base)>> >>

\* lines 156-170: the three marker locations, newest first
markerPaths(item, f, base) ==
    <<seenPathOf(f, item.guid), <<escape(item.url)>>, <<escape(base)>> >>

\* lines 161-168: a marker was found; the item is skipped, and the
\* current-format marker is touched when it is missing (touch's error is
\* not looked at)
skipSeen(seenPath, fault, dirs) ==
    Result("skipped", FALSE, FALSE, <<>>, FALSE, dirs,
           IF Stat(seenPath, dirs) THEN seenCur ELSE touch(seenPath, fault, seenCur).seenCur,
           dest)

\* fetchAndMark with the marker written before the download
fetchAndMarkFirst(u, seenPath, destPath, skipDownload, fault, dirs) ==
    LET dl == download(u, destPath, fault)
        tc == touch(seenPath, fault, seenCur)
    IN  IF tc.err
        THEN Result("toucherr", TRUE, FALSE, destPath, FALSE, dirs, tc.seenCur, dest)
        ELSE IF ~skipDownload /\ dl.err
        THEN Result(dl.outcome, TRUE, TRUE, destPath, FALSE, dirs, tc.seenCur, dl.dest)
        ELSE Result("marked", FALSE, ~skipDownload, destPath, ~skipDownload, dirs,
                    tc.seenCur, IF skipDownload THEN dest ELSE dl.dest)

\* fetchAndMark with no marker written when the download is skipped
fetchAndMarkNoSkipMarker(u, seenPath, destPath, skipDownload, fault, dirs) ==
    LET dl == download(u, destPath, fault)
        tc == touch(seenPath, fault, seenCur)
    IN  IF skipDownload
        THEN Result("marked", FALSE, FALSE, destPath, FALSE, dirs, seenCur, dest)
        ELSE IF dl.err
        THEN Result(dl.outcome, TRUE, TRUE, destPath, FALSE, dirs, seenCur, dl.dest)
        ELSE Result(IF tc.err THEN "toucherr" ELSE "marked", tc.err, TRUE,
                    destPath, TRUE, dirs, tc.seenCur, dl.dest)

\* lines 185-201: the download unless skipDownload, then the marker
fetchAndMark(u, seenPath, destPath, skipDownload, fault, dirs) ==
    LET dl == download(u, destPath, fault)
        tc == touch(seenPath, fault, seenCur)
    IN  IF ~skipDownload /\ dl.err
        THEN Result(dl.outcome, TRUE, TRUE, destPath, FALSE, dirs, seenCur, dl.dest)
        ELSE Result(IF tc.err THEN "toucherr" ELSE "marked", tc.err, ~skipDownload,
                    destPath, ~skipDownload, dirs, tc.seenCur,
                    IF skipDownload THEN dest ELSE dl.dest)

\* downloadItem (lines 131-202)
downloadItem(item, f, pfx, skipDownload, fault) ==
    LET base     == baseName(item)
        seenPath == seenPathOf(f, item.guid)
        mk       == MkdirAll(seenPath[1], fault)
        paths    == markerPaths(item, f, base)
    IN  IF badBase(base)
        THEN Result("naming", TRUE, FALSE, <<>>, FALSE, feedDirs, seenCur, dest)
        ELSE IF mk.err
        THEN Result("mkdir", TRUE, FALSE, <<>>, FALSE, feedDirs, seenCur, dest)
        ELSE IF \E k \in 1..Len(paths) : Stat(paths[k], mk.feedDirs)
        THEN skipSeen(seenPath, fault, mk.feedDirs)
        ELSE fetchAndMark(item.url, seenPath, destPathOf(pfx, base), skipDownload,
                          fault, mk.feedDirs)

\* ------------------------------------------------------------- main
FeedF == <<"f", "/", "x">>
FeedG == <<"f", "/", "y">>

ShA  == Shape(T1, G1, "url", U1)
ShB  == Shape(<<>>, <<>>, "url", U2)
ShC  == Shape(<<>>, G2, "url", U3)
ShA2 == Shape(T1, G1, "url", U4)
ShD  == Shape(<<>>, G3, "url", U5)
ShN  == Shape(T1, G3, "none", <<>>)
ShV1 == Shape(T1, G1, "url", UV)
ShV2 == Shape(<<>>, G2, "url", UV)
ShQ  == Shape(<<>>, G1, "url", UQ)
ShNV == Shape(T1, G2, "url", UNV)
ShDots == Shape(<<>>, G3, "url", UDots)
ShL1 == Shape(<<>>, GL1, "url", U3)
ShL2 == Shape(<<>>, GL2, "url", U4)

\* where the token stream may fail: nowhere, at once, on the last token,
\* or instead of io.EOF
ErrAts(d) == {0, 1, Len(d), Len(d) + 1}

\* everything getItems may return to main for the feeds of shapes in SS
ScanResultsOf(SS) ==
    UNION {{getItems(renderFeed(s), o, e) : o \in OpenOutcomes, e \in ErrAts(renderFeed(s))}
           : s \in SS}

PreFile == [st |-> "full", src |-> <<>>]

\* the destination directory before the first run: empty, or left by
\* earlier versions of the program (legacy markers, downloaded files)
InitDirs ==
    {[dest |-> [n \in {} |-> PreFile], seenTop |-> {}],
     [dest |-> [n \in {<<"p", "a", ".", "m">>} |-> PreFile], seenTop |-> {escape(U1)}],
     [dest |-> [n \in {<<"p", "a", ".", "m">>, <<"p", "a", "0", ".", "m">>} |-> PreFile],
      seenTop |-> {<<"a", ".", "m">>}]}

\* no process is running
noProcess ==
    /\ pc = "idle"
    /\ feed = <<>> /\ prefix = <<>> /\ skip = FALSE /\ num = -1
    /\ items = <<>> /\ i = 0 /\ calls = <<>>
    /\ ret = NoRet

Init ==
    /\ shapes = <<>> /\ doc = <<>> /\ pos = 1 /\ sc = scanInit
    /\ scanPc = "returned" /\ ret = NoRet
    /\ noProcess /\ exit = "none" /\ run = 0 /\ prev = NoRun
    /\ \E d \in InitDirs : dest = d.dest /\ seenTop = d.seenTop
    /\ feedDirs = {} /\ seenCur = {}
    /\ completed = {} /\ recorded = {} /\ failedDl = {} /\ skipMarked = {}

\* the process ends: its flags and locals are gone
processGone ==
    /\ pc' = "idle"
    /\ feed' = <<>> /\ prefix' = <<>> /\ skip' = FALSE /\ num' = -1
    /\ items' = <<>> /\ i' = 0 /\ calls' = <<>>
    /\ ret' = NoRet

\* the indices of the current run's calls that returned nil
okIdx == {calls[k].idx : k \in {j \in 1..Len(calls) : ~calls[j].err}}

\* main, lines 241-257: the flags are parsed (-feed, -prefix, -skip, -num);
\* a missing -feed or a failing getItems is fatal (log.Fatal exits with
\* status 1) and the process is gone; prev keeps what getItems had returned
mainStartWith(FF, PP, SS, NN, RR) ==
    /\ pc = "idle"
    /\ \E f \in FF, p \in PP, s \in SS, n \in NN, r \in RR :
          LET got == IF f = <<>> THEN NoRet ELSE r
          IN  IF f = <<>> \/ got.err
              THEN /\ processGone
                   /\ exit' = "fatal"
                   /\ prev' = [feed |-> f, items |-> got.items, num |-> n, n |-> 0,
                               ok |-> {}]
              ELSE /\ feed' = f /\ prefix' = p /\ skip' = s /\ num' = n
                   /\ ret' = got
                   /\ items' = got.items
                   /\ pc' = "loop" /\ exit' = "none"
                   /\ i' = 0 /\ calls' = <<>>
                   /\ prev' = prev
    /\ run' = run + 1
    /\ UNCHANGED <<shapes, doc, pos, sc, scanPc, fsVars, histVars>>

\* loopRuns with the cap compared one too late
loopRunsOneMore(idx, n, cap) == idx < n /\ ~(cap >= 0 /\ idx > cap)

\* lines 258-261: whether the loop body runs for index idx of n items
loopRuns(idx, n, cap) == idx < n /\ ~(cap >= 0 /\ idx >= cap)

\* afterItem that leaves the loop when downloadItem returned an error
afterItemBreak(idx, err, n) == IF err THEN n ELSE idx + 1

\* lines 258 and 262-265: the index the loop goes to after downloadItem
\* returned err for index idx of n items: the error is logged, nothing more
afterItem(idx, err, n) == idx + 1

\* lines 258-264: one iteration of main's loop
mainLoop ==
    /\ pc = "loop" /\ loopRuns(i, Len(items), num)
    /\ \E fault \in Faults :
          LET it   == items[i + 1]
              r    == downloadItem(it, feed, prefix, skip, fault)
              pair == <<feed, it.guid>>
          IN  /\ dest' = r.dest /\ feedDirs' = r.feedDirs /\ seenCur' = r.seenCur
              /\ calls' = Append(calls, [idx |-> i, outcome |-> r.outcome, err |-> r.err,
                                         fetched |-> r.fetched, destName |-> r.destName])
              /\ completed' = IF r.downloaded THEN completed \cup {pair} ELSE completed
              /\ recorded' = IF r.downloaded /\ seenPathOf(feed, it.guid) \in r.seenCur
                             THEN recorded \cup {pair} ELSE recorded
              /\ failedDl' = IF r.fetched /\ ~r.downloaded
                             THEN failedDl \cup {<<feed, it>>} ELSE failedDl
              /\ skipMarked' = IF skip /\ r.outcome = "marked"
                               THEN skipMarked \cup {<<feed, it>>} ELSE skipMarked
              /\ i' = afterItem(i, r.err, Len(items))
    /\ UNCHANGED <<scanVars, seenTop, pc, exit, run, feed, prefix, skip, num, items, prev>>

\* lines 258-266: the loop is over and main returns (exit status 0); the
\* process is gone, prev remembers what it did
mainExit ==
    /\ pc = "loop" /\ ~loopRuns(i, Len(items), num)
    /\ processGone
    /\ exit' = "ok"
    /\ prev' = [feed |-> feed, items |-> items, num |-> num, n |-> Len(calls),
                ok |-> okIdx]
    /\ UNCHANGED <<shapes, doc, pos, sc, scanPc, fsVars, histVars, run>>

\* Repeated runs against one destination directory
RunShapes == {<<ShA, ShC>>, <<ShA2>>}
RunResults == ScanResultsOf(RunShapes)

mainStart ==
    /\ run < MaxRuns
    /\ mainStartWith({FeedF}, {<<"p">>}, BOOLEAN, {-1}, RunResults)

Next == mainStart \/ mainLoop \/ mainExit

Spec == Init /\ [][Next]_vars

\* One run, with every flag
OneShapes == {<<ShA, ShB, ShC>>, <<ShD, ShA2>>, <<ShN, ShB>>, <<>>,
              <<ShV1, ShV2>>, <<ShQ, ShNV>>, <<ShDots, ShC>>,
              <<ShL1, ShL2>>}
OneResults == ScanResultsOf(OneShapes)

mainStartOnce ==
    /\ run = 0
    /\ mainStartWith({<<>>, FeedF, FeedG}, {<<>>, <<"p">>}, BOOLEAN, {-1, 0, 1, 2, 4},
                     OneResults)

NextMain == mainStartOnce \/ mainLoop \/ mainExit

SpecMain == Init /\ [][NextMain]_vars

\* ------------------------------------------- downloadItem, step by step
\* One call of downloadItem for the item items[1], one system call at a
\* time; the process may be terminated between any two of them. pc is the
\* place in downloadItem or download, exit is "none" while the call runs and
\* then "ok" (nil was returned), "err" or "killed". calls holds the call's
\* destPath once it is chosen, and prev what the call as a whole may return
\* and leave behind, from downloadItem above.
TheItem == items[1]
TheSeenPath == seenPathOf(feed, TheItem.guid)
TheDestPath == calls[1].destName

\* the directory before the call: as InitDirs, or with the item's marker
\* left by an earlier run, or with the partial file of a failed attempt
ItemDirs(it, f) ==
    {[dest |-> d.dest, seenTop |-> d.seenTop, feedDirs |-> {}, seenCur |-> {}]
        : d \in InitDirs}
    \cup {[dest |-> [n \in {<<"p">> \o baseName(it)} |-> [st |-> "full", src |-> it.url]],
           seenTop |-> {}, feedDirs |-> {escape(f)},
           seenCur |-> {seenPathOf(f, it.guid)}],
          [dest |-> [n \in {<<"p">> \o baseName(it)} |-> [st |-> "partial", src |-> it.url]],
           seenTop |-> {}, feedDirs |-> {escape(f)}, seenCur |-> {}]}

ItemInputs == {ShA, ShB, ShC, ShD}

InitItem ==
    /\ shapes = <<>> /\ doc = <<>> /\ pos = 1 /\ sc = scanInit
    /\ scanPc = "returned" /\ ret = NoRet
    /\ run = 1 /\ num = -1 /\ i = 0 /\ exit = "none"
    /\ feed = FeedF /\ prefix = <<"p">>
    /\ skip \in BOOLEAN
    /\ \E sh \in ItemInputs : items = getItems(renderFeed(<<sh>>), "ok", 0).items
    /\ \E d \in ItemDirs(items[1], feed) :
          /\ dest = d.dest /\ seenTop = d.seenTop
          /\ feedDirs = d.feedDirs /\ seenCur = d.seenCur
    /\ calls = <<>>
    /\ prev = {[err |-> r.err, dest |-> r.dest, feedDirs |-> r.feedDirs,
                seenCur |-> r.seenCur]
                  : r \in {downloadItem(items[1], feed, prefix, skip, fault)
                              : fault \in Faults}}
    /\ pc = "name"
    /\ completed = {} /\ recorded = {} /\ failedDl = {} /\ skipMarked = {}

\* the call returns
itemReturns(err) == pc' = "returned" /\ exit' = (IF err THEN "err" ELSE "ok")

\* lines 132-149: the base filename; an invalid one is the naming error
ItemName ==
    /\ pc = "name"
    /\ IF badBase(baseName(TheItem)) THEN itemReturns(TRUE)
       ELSE pc' = "mkdir" /\ exit' = exit
    /\ UNCHANGED <<scanVars, fsVars, histVars, run, feed, prefix, skip, num, items, i,
                   calls, prev>>

\* lines 152-155: os.MkdirAll of the marker's directory
ItemMkdirAll ==
    /\ pc = "mkdir"
    /\ \E fault \in {"none", "mkdir"} :
          LET mk == MkdirAll(TheSeenPath[1], fault)
          IN  /\ feedDirs' = mk.feedDirs
              /\ IF mk.err THEN itemReturns(TRUE) ELSE pc' = "stat" /\ exit' = exit
    /\ UNCHANGED <<scanVars, dest, seenTop, seenCur, histVars, run, feed, prefix, skip,
                   num, items, i, calls, prev>>

\* lines 156-170: a marker of any format ends the call with nil, after the
\* current-format marker was touched if missing (an error of that touch is
\* dropped)
ItemStat ==
    /\ pc = "stat"
    /\ LET paths == markerPaths(TheItem, feed, baseName(TheItem))
       IN  IF \E k \in 1..Len(paths) : Stat(paths[k], feedDirs)
           THEN /\ \E fault \in {"none", "touch", "touchclose"} :
                      seenCur' = skipSeen(TheSeenPath, fault, feedDirs).seenCur
                /\ itemReturns(FALSE)
           ELSE seenCur' = seenCur /\ pc' = "destpath" /\ exit' = exit
    /\ UNCHANGED <<scanVars, dest, seenTop, feedDirs, histVars, run, feed, prefix, skip,
                   num, items, i, calls, prev>>

\* lines 172-188: the destination path; with skipDownload the download is
\* left out
ItemDestPath ==
    /\ pc = "destpath"
    /\ calls' = <<[idx |-> 0, outcome |-> "running", err |-> FALSE, fetched |-> FALSE,
                   destName |-> destPathOf(prefix, baseName(TheItem))]>>
    /\ pc' = IF skip THEN "touch" ELSE "openURL"
    /\ UNCHANGED <<scanVars, fsVars, histVars, exit, run, feed, prefix, skip, num,
                   items, i, prev>>

\* download, lines 224-228: openURL
DownloadOpenURL ==
    /\ pc = "openURL"
    /\ \E o \in OpenOutcomes :
          IF openURL(o).err THEN itemReturns(TRUE) ELSE pc' = "create" /\ exit' = exit
    /\ UNCHANGED <<scanVars, fsVars, histVars, run, feed, prefix, skip, num, items, i,
                   calls, prev>>

\* DownloadCreate that also writes the marker
DownloadCreateAndMark ==
    /\ pc = "create"
    /\ dest' = WriteFile(TheDestPath, [st |-> "partial", src |-> TheItem.url])
    /\ seenCur' = seenCur \cup {TheSeenPath}
    /\ pc' = "copy" /\ exit' = exit
    /\ UNCHANGED <<scanVars, seenTop, feedDirs, histVars, run, feed, prefix, skip,
                   num, items, i, calls, prev>>

\* download, lines 230-233: os.Create of the destination file, which is
\* then there without its content
DownloadCreate ==
    /\ pc = "create"
    /\ \E fault \in {"none", "create"} :
          IF fault = "create" THEN dest' = dest /\ itemReturns(TRUE)
          ELSE /\ dest' = WriteFile(TheDestPath, [st |-> "partial", src |-> TheItem.url])
               /\ pc' = "copy" /\ exit' = exit
    /\ UNCHANGED <<scanVars, seenTop, feedDirs, seenCur, histVars, run, feed, prefix,
                   skip, num, items, i, calls, prev>>

\* download, lines 234-237: io.Copy; when it fails the file is closed, left
\* as it is, and the error returned
DownloadCopy ==
    /\ pc = "copy"
    /\ \E fault \in {"none", "copy"} :
          IF fault = "copy" THEN dest' = dest /\ itemReturns(TRUE)
          ELSE /\ dest' = WriteFile(TheDestPath, [st |-> "full", src |-> TheItem.url])
               /\ pc' = "close" /\ exit' = exit
    /\ UNCHANGED <<scanVars, seenTop, feedDirs, seenCur, histVars, run, feed, prefix,
                   skip, num, items, i, calls, prev>>

\* download, line 238, and downloadItem, lines 193-195: f.Close
DownloadClose ==
    /\ pc = "close"
    /\ \E fault \in {"none", "close"} :
          IF fault = "close" THEN itemReturns(TRUE) ELSE pc' = "touch" /\ exit' = exit
    /\ UNCHANGED <<scanVars, fsVars, histVars, run, feed, prefix, skip, num, items, i,
                   calls, prev>>

\* downloadItem, line 201: touch(seenPath), whose error is returned
ItemTouch ==
    /\ pc = "touch"
    /\ \E fault \in {"none", "touch", "touchclose"} :
          LET tc == touch(TheSeenPath, fault, seenCur)
          IN  seenCur' = tc.seenCur /\ itemReturns(tc.err)
    /\ UNCHANGED <<scanVars, dest, seenTop, feedDirs, histVars, run, feed, prefix, skip,
                   num, items, i, calls, prev>>

\* the process is terminated in the middle of the call
ItemKilled ==
    /\ pc \notin {"returned", "killed"}
    /\ pc' = "killed" /\ exit' = "killed"
    /\ UNCHANGED <<scanVars, fsVars, histVars, run, feed, prefix, skip, num, items, i,
                   calls, prev>>

NextItem ==
    \/ ItemName \/ ItemMkdirAll \/ ItemStat \/ ItemDestPath
    \/ DownloadOpenURL \/ DownloadCreate \/ DownloadCopy \/ DownloadClose
    \/ ItemTouch \/ ItemKilled

SpecItem == InitItem /\ [][NextItem]_vars

\* a call that returns has returned, and left behind, what downloadItem as
\* a whole says for one of the faults
StepsAgree ==
    pc = "returned"
       => [err |-> exit = "err", dest |-> dest, feedDirs |-> feedDirs,
           seenCur |-> seenCur] \in prev

\* ----------------------------------------------------------- properties
\* a step that is one call of downloadItem, for the item items[i + 1]; the
\* call's record is the last of calls in the next state
ItemStep == pc = "loop" /\ Len(calls') = Len(calls) + 1

\* the last call of the current run and its item
LastCall == calls[Len(calls)]
LastItem == items[LastCall.idx + 1]

\* no marker of any format is present for the item
NoMarker(it, f) ==
    LET paths == markerPaths(it, f, baseName(it))
    IN  \A k \in 1..Len(paths) : ~Stat(paths[k], feedDirs)

\* a legacy marker of the item is present
LegacyMarker(it) ==
    Stat(<<escape(it.url)>>, feedDirs) \/ Stat(<<escape(baseName(it))>>, feedDirs)

\* download() returned an error in the call
DownloadFailed(c) == c.outcome \in {"fetcherr", "createerr", "copyerr", "closeerr"}

\* C1 as stated: once download() has returned nil for a (feed, guid) pair, no
\* later call of downloadItem for that pair fetches the enclosure again.
C1_Original ==
    [][ItemStep /\ calls'[Len(calls')].fetched
         => <<feed, items[i + 1].guid>> \notin completed]_vars

\* C1 amended: once download() has returned nil for a (feed, guid) pair and
\* the pair's current-format marker was created, no later call of
\* downloadItem for that pair, in the same run or a later one, fetches the
\* enclosure again.
C1_AtMostOnce ==
    [][ItemStep /\ calls'[Len(calls')].fetched
         => <<feed, items[i + 1].guid>> \notin recorded]_vars

\* a later run skips an item whose pair was downloaded and marked before
C1_Witness ==
    /\ pc = "loop" /\ run >= 2 /\ calls # <<>>
    /\ <<feed, LastItem.guid>> \in recorded
    /\ \A k \in 1..Len(calls) : ~calls[k].fetched
    /\ LastCall.outcome = "skipped"

\* the calls of the current run for items the run before processed without
\* error, when the feed URL and the items are those of the run before
SecondRunCalls ==
    IF pc = "loop" /\ prev.feed = feed /\ prev.items = items
    THEN {k \in 1..Len(calls) : calls[k].idx \in prev.ok}
    ELSE {}

\* C2 as stated: in a run over the feed and items of the run before, every
\* call takes the skip path and fetches nothing.
C2_Original ==
    (pc = "loop" /\ prev.feed = feed /\ prev.items = items)
        => \A k \in 1..Len(calls) : calls[k].outcome = "skipped" /\ ~calls[k].fetched

\* C2 amended: in a run over the feed and items of the run before, every
\* call for an item that the run before processed without error takes the
\* skip path and fetches nothing.
C2_SecondRunSkips ==
    \A k \in SecondRunCalls : calls[k].outcome = "skipped" /\ ~calls[k].fetched

\* a second run over two items that the first run processed without error
C2_Witness ==
    /\ pc = "loop" /\ prev.feed = feed /\ prev.items = items
    /\ Len(items) = 2 /\ Len(calls) = 2
    /\ SecondRunCalls = {1, 2}

\* C3 as stated: a call in which download() fails returns an error and
\* creates no marker; and a later call for that item of that feed, with no
\* marker of any format present, is not skipped and fetches the enclosure.
C3_Original ==
    [][ItemStep =>
         /\ DownloadFailed(calls'[Len(calls')])
               => /\ calls'[Len(calls')].err
                  /\ seenCur' = seenCur /\ seenTop' = seenTop
         /\ (<<feed, items[i + 1]>> \in failedDl /\ NoMarker(items[i + 1], feed))
               => /\ calls'[Len(calls')].outcome # "skipped"
                  /\ calls'[Len(calls')].fetched]_vars

\* C3 amended: a call in which download() fails returns an error and creates
\* no marker; and a later call for that item of that feed in a run without
\* skipDownload, with no marker of any format present, is not skipped and
\* fetches the enclosure.
C3_RetriedNextRun ==
    [][ItemStep =>
         /\ DownloadFailed(calls'[Len(calls')])
               => /\ calls'[Len(calls')].err
                  /\ seenCur' = seenCur /\ seenTop' = seenTop
         /\ (<<feed, items[i + 1]>> \in failedDl /\ NoMarker(items[i + 1], feed) /\ ~skip)
               => /\ calls'[Len(calls')].outcome # "skipped"
                  /\ calls'[Len(calls')].fetched]_vars

\* an item whose download had failed is downloaded and marked by a later call
C3_Witness ==
    /\ pc = "loop" /\ calls # <<>> /\ ~skip
    /\ <<feed, LastItem>> \in failedDl
    /\ LastCall.outcome = "marked" /\ LastCall.fetched
    /\ seenPathOf(feed, LastItem.guid) \in seenCur

\* C4 as stated: a call with skipDownload for an item without marker, once
\* past naming and directory creation, fetches nothing, writes no
\* destination file and creates the current-format marker; a later call for
\* the item without skipDownload takes the skip path and fetches nothing.
C4_Original ==
    [][ItemStep =>
         /\ (/\ skip /\ NoMarker(items[i + 1], feed)
             /\ calls'[Len(calls')].outcome \notin {"naming", "mkdir"})
               => /\ ~calls'[Len(calls')].fetched
                  /\ dest' = dest
                  /\ seenPathOf(feed, items[i + 1].guid) \in seenCur'
         /\ (~skip /\ <<feed, items[i + 1]>> \in skipMarked)
               => /\ calls'[Len(calls')].outcome = "skipped"
                  /\ ~calls'[Len(calls')].fetched]_vars

\* C4 amended: a call with skipDownload for an item without marker fetches
\* nothing and writes no destination file, and when it returns nil (naming,
\* directory creation and marker creation succeeded) the current-format
\* marker exists; a later call for the item without skipDownload then takes
\* the skip path and fetches nothing.
C4_SkipMarks ==
    [][ItemStep =>
         /\ (skip /\ NoMarker(items[i + 1], feed))
               => /\ ~calls'[Len(calls')].fetched
                  /\ dest' = dest
                  /\ ~calls'[Len(calls')].err
                        => seenPathOf(feed, items[i + 1].guid) \in seenCur'
         /\ (~skip /\ <<feed, items[i + 1]>> \in skipMarked)
               => /\ calls'[Len(calls')].outcome = "skipped"
                  /\ ~calls'[Len(calls')].fetched]_vars

\* an item marked under skipDownload is skipped by a run without it, and
\* nothing was ever downloaded for it
C4_Witness ==
    /\ pc = "loop" /\ calls # <<>> /\ ~skip
    /\ <<feed, LastItem>> \in skipMarked
    /\ LastCall.outcome = "skipped" /\ ~LastCall.fetched
    /\ <<feed, LastItem.guid>> \notin completed

\* C5: a call for an item that has a legacy marker and no current-format
\* marker, once past naming and directory creation, fetches nothing, returns
\* nil, leaves the legacy markers in place and leaves the current-format
\* marker in place.
C5_Claim ==
    [][(/\ ItemStep
        /\ LegacyMarker(items[i + 1])
        /\ seenPathOf(feed, items[i + 1].guid) \notin seenCur
        /\ calls'[Len(calls')].outcome \notin {"naming", "mkdir"})
         => /\ ~calls'[Len(calls')].fetched
            /\ ~calls'[Len(calls')].err
            /\ seenTop' = seenTop
            /\ seenPathOf(feed, items[i + 1].guid) \in seenCur']_vars

\* C6: a call leaves every file that was in the destination directory as it
\* was; the destination name is prefix+base when that name is unused, and
\* otherwise the name numbered with the least k >= 0 that is unused; a file
\* that is written is written under that name.
C6_NoOverwrite ==
    [][ItemStep =>
         LET c  == calls'[Len(calls')]
             b  == baseName(items[i + 1])
             pb == prefix \o b
         IN  /\ \A n \in DOMAIN dest : n \in DOMAIN dest' /\ dest'[n] = dest[n]
             /\ (DOMAIN dest') \subseteq (DOMAIN dest) \cup {c.destName}
             /\ c.destName # <<>> =>
                   /\ c.destName \notin DOMAIN dest
                   /\ IF pb \notin DOMAIN dest THEN c.destName = pb
                      ELSE \E k \in 0..Cardinality(DOMAIN dest) :
                              /\ c.destName = numbered(prefix, b, k)
                              /\ \A j \in 0..(k - 1) :
                                    numbered(prefix, b, j) \in DOMAIN dest]_vars

\* a download went to the name numbered 1, the plain name and the name
\* numbered 0 being taken
C6_Witness ==
    /\ pc = "loop" /\ calls # <<>>
    /\ LastCall.outcome = "marked" /\ LastCall.fetched
    /\ LastCall.destName = numbered(prefix, baseName(LastItem), 1)
    /\ LastCall.destName \in DOMAIN dest
    /\ dest[LastCall.destName] = [st |-> "full", src |-> LastItem.url]
    /\ (prefix \o baseName(LastItem)) \in DOMAIN dest
    /\ numbered(prefix, baseName(LastItem), 0) \in DOMAIN dest

\* the number of items a run with cap n processes out of m
Limit(n, m) == IF n >= 0 /\ n < m THEN n ELSE m

\* C7: an error returned by downloadItem does not stop the run: the calls of
\* a run are for the indices 0, 1, 2, ... each once, whatever they returned,
\* and a run that got its items ends with exit status 0 after one call for
\* every item within the cap; only the start of a run can be fatal.
C7_FailuresDoNotStop ==
    /\ pc = "loop" =>
          /\ Len(calls) = i
          /\ \A k \in 1..Len(calls) : calls[k].idx = k - 1
    /\ (pc = "idle" /\ run > 0) =>
          /\ exit \in {"ok", "fatal"}
          /\ exit = "fatal" => prev.n = 0
          /\ exit = "ok" => prev.n = Limit(prev.num, Len(prev.items))

\* a run of three items whose first two calls failed ended with status 0
\* after its third call succeeded
C7_Witness ==
    /\ pc = "idle" /\ exit = "ok"
    /\ Len(prev.items) = 3 /\ prev.n = 3
    /\ prev.ok = {2}

\* C8: with cap num >= 0 a run calls downloadItem for the first
\* min(num, N) items, in order, and for no other; with num < 0 for all N.
C8_Cap ==
    /\ pc = "loop" =>
          /\ i <= Len(items)
          /\ num >= 0 => i <= num
          /\ \A k \in 1..Len(calls) : calls[k].idx = k - 1
    /\ (pc = "idle" /\ exit = "ok") =>
          /\ prev.num < 0 => prev.n = Len(prev.items)
          /\ prev.num >= 0 =>
                prev.n = Min({prev.num, Len(prev.items)})

\* a run with cap 2 over three items ended after two calls, the first of
\* which failed, and the third item has no marker
C8_Witness ==
    /\ pc = "idle" /\ exit = "ok"
    /\ prev.num = 2 /\ Len(prev.items) = 3 /\ prev.n = 2
    /\ 0 \notin prev.ok
    /\ seenPathOf(prev.feed, prev.items[3].guid) \notin seenCur

\* C9: a run starts its loop only with a feed URL and a getItems that
\* returned no error; otherwise it is fatal at once: getItems has returned no
\* item, no call of downloadItem is made and the destination directory is as
\* it was.
C9_FatalBeforeItems ==
    [][run' = run + 1 =>
         /\ exit' = "fatal" <=> pc' = "idle"
         /\ exit' = "fatal" =>
               /\ prev'.items = <<>> /\ prev'.n = 0
               /\ calls' = <<>>
               /\ dest' = dest /\ seenTop' = seenTop
               /\ feedDirs' = feedDirs /\ seenCur' = seenCur
               /\ completed' = completed
         /\ exit' # "fatal" =>
               /\ feed' # <<>>
               /\ ~ret'.err
               /\ items' = ret'.items]_vars

\* a run with a feed URL was fatal
C9_Witness ==
    /\ pc = "idle" /\ exit = "fatal" /\ run = 1
    /\ prev.feed = FeedF
    /\ calls = <<>>

\* every container of the document holds an enclosure with a url attribute
\* and the URLs are pairwise different
DistinctEnclosures(shs) ==
    /\ \A k \in 1..Len(shs) : shs[k].enc = "url"
    /\ \A j, k \in 1..Len(shs) : j # k => shs[j].url # shs[k].url

\* C10 as stated: for a document of N item containers that each hold an
\* enclosure with a url attribute, the URLs pairwise different, getItems
\* returns N items, the k-th with the URL of the k-th container.
C10_Original ==
    (scanPc = "returned" /\ ~ret.err /\ doc = renderFeed(shapes)
        /\ DistinctEnclosures(shapes))
        => /\ Len(ret.items) = Len(shapes)
           /\ \A k \in 1..Len(shapes) : ret.items[k].url = shapes[k].url

\* the containers whose url attribute is not the empty string, in order
RECURSIVE withURL(_)
withURL(shs) ==
    IF shs = <<>> THEN <<>>
    ELSE IF Head(shs).url # <<>> THEN <<Head(shs)>> \o withURL(Tail(shs))
    ELSE withURL(Tail(shs))

\* C10: for a document of N item containers that each hold an enclosure
\* with a url attribute, the URLs pairwise different, getItems returns one
\* item for each container whose url attribute is not empty, in document
\* order and with that URL: N items when no url attribute is empty, and no
\* item for a container whose url attribute is empty.
C10_OnePerContainer ==
    (scanPc = "returned" /\ ~ret.err /\ doc = renderFeed(shapes)
        /\ DistinctEnclosures(shapes))
        => /\ Len(ret.items) = Len(withURL(shapes))
           /\ \A k \in 1..Len(ret.items) : ret.items[k].url = withURL(shapes)[k].url
           /\ (\A k \in 1..Len(shapes) : shapes[k].url # <<>>)
                 => /\ Len(ret.items) = Len(shapes)
                    /\ \A k \in 1..Len(shapes) : ret.items[k].url = shapes[k].url

\* two containers with url attributes that are not empty, the first without
\* guid, were scanned to the end
C10_Witness ==
    /\ scanPc = "returned" /\ ~ret.err /\ pos > Len(doc)
    /\ doc = renderFeed(shapes)
    /\ Len(shapes) = 2 /\ DistinctEnclosures(shapes)
    /\ shapes[1].url # <<>> /\ shapes[2].url # <<>>
    /\ shapes[1].guid = <<>> /\ shapes[2].guid # <<>>
    /\ Len(ret.items) = 2

\* the containers of shs that carry the URL u
CarryURL(shs, u) == {k \in 1..Len(shs) : shs[k].enc = "url" /\ shs[k].url = u}

\* C11: when the same enclosure URL appears in two item containers of one
\* feed, getItems returns a single item for that URL, carrying the title of
\* the first of the two.
C11_Claim ==
    (scanPc = "returned" /\ ~ret.err /\ doc = renderFeed(shapes))
        => \A u \in {U1, U2, U3} :
              Cardinality(CarryURL(shapes, u)) = 2
                 => LET got == {k \in 1..Len(ret.items) : ret.items[k].url = u}
                    IN  /\ Cardinality(got) = 1
                        /\ \A k \in got :
                              ret.items[k].title = shapes[Min(CarryURL(shapes, u))].title

\* the flat document of shs holds an enclosure with a URL
FlatWithEnclosure ==
    /\ doc = renderFlat(shapes) /\ doc # renderFeed(shapes)
    /\ \E k \in 1..Len(shapes) : shapes[k].enc = "url" /\ shapes[k].url # <<>>

\* C12: for a flat feed, whose title and enclosure elements are siblings
\* with no item container, getItems returns one item for each enclosure
\* with a URL, in document order with that URL.
C12_Claim ==
    (scanPc = "returned" /\ ~ret.err /\ FlatWithEnclosure)
        => /\ Len(ret.items) = Len(withURL(shapes))
           /\ \A k \in 1..Len(ret.items) : ret.items[k].url = withURL(shapes)[k].url

\* the number of item containers of doc closed by its first p tokens
closedAt(p) ==
    Cardinality({q \in 1..p : doc[q].k = "EndElement" /\ doc[q].name = "item"})

\* the item a container yields: its guid, or its URL for want of one
yieldOf(sh) ==
    [guid |-> IF sh.guid # <<>> THEN sh.guid ELSE sh.url, url |-> sh.url]

\* C13: at the end of each item container getItems emits an item exactly
\* when a URL was captured in the container, with the captured guid if
\* there is one and the URL as guid otherwise: at every point of the scan
\* the items emitted so far are those of the closed containers that carry
\* a URL, in order.
C13_EmitAtItemEnd ==
    (scanPc \in {"loop", "returned"} /\ doc = renderFeed(shapes))
        => LET closed == withURL(SubSeq(shapes, 1, closedAt(pos - 1)))
           IN  /\ Len(sc.items) = Len(closed)
               /\ \A k \in 1..Len(closed) :
                     /\ sc.items[k].url = yieldOf(closed[k]).url
                     /\ sc.items[k].guid = yieldOf(closed[k]).guid

\* a container without URL and then one with a URL and no guid gave one
\* item, with its URL as guid
C13_Witness ==
    /\ scanPc = "returned" /\ ~ret.err /\ doc = renderFeed(shapes)
    /\ Len(shapes) = 2
    /\ shapes[1].enc = "none"
    /\ shapes[2].url # <<>> /\ shapes[2].guid = <<>>
    /\ Len(ret.items) = 1
    /\ ret.items[1].url = shapes[2].url
    /\ ret.items[1].guid = shapes[2].url

\* the scanner handles the token at pos
ScanStep == scanPc = "loop" /\ pos' = pos + 1

\* C18: the pending guid, title and url are cleared at every item start
\* tag, and an item emitted at an item end tag has the title, the URL and
\* the guid (or, for want of one, the URL) of the container being closed,
\* never the channel title or a field of an earlier container.
C18_OwnFields ==
    [][(ScanStep /\ doc = renderFeed(shapes)) =>
         /\ (doc[pos].k = "StartElement" /\ doc[pos].name = "item")
               => sc'.guid = <<>> /\ sc'.title = <<>> /\ sc'.url = <<>>
         /\ Len(sc'.items) = Len(sc.items) + 1
               => LET sh == shapes[closedAt(pos)]
                      it == sc'.items[Len(sc'.items)]
                  IN  /\ doc[pos].k = "EndElement" /\ doc[pos].name = "item"
                      /\ it.title = sh.title
                      /\ it.url = sh.url
                      /\ it.guid = yieldOf(sh).guid]_vars

\* after a container with title and guid, a container with neither gave an
\* item with empty title and its own URL as guid
C18_Witness ==
    /\ scanPc = "returned" /\ ~ret.err /\ doc = renderFeed(shapes)
    /\ Len(shapes) = 2 /\ Len(ret.items) = 2
    /\ shapes[1].title # <<>> /\ shapes[1].guid # <<>>
    /\ shapes[2].title = <<>> /\ shapes[2].guid = <<>>
    /\ ret.items[1].title = shapes[1].title
    /\ ret.items[2].title = <<>>
    /\ ret.items[2].guid = shapes[2].url
    /\ ret.items[2].url # ret.items[1].url

\* the names downloadItem may choose for the base filename b: the plain
\* one, or a numbered one
NamesFor(b) ==
    {prefix \o b} \cup {numbered(prefix, b, k) : k \in 0..Cardinality(DOMAIN dest)}

\* C14: for an item whose URL contains /episodes/<UUID>/ the base filename
\* is the title followed by .mp3 when the title is not empty and the UUID
\* followed by .mp3 when it is, whatever the basename of the URL: the call
\* is no naming error and the destination it chooses is made of that name.
C14_VendorName ==
    [][(ItemStep /\ items[i + 1].url = UV) =>
         LET it   == items[i + 1]
             c    == calls'[Len(calls')]
             want == IF it.title # <<>> THEN it.title \o DotMp3 ELSE VendorID \o DotMp3
         IN  /\ c.outcome # "naming"
             /\ c.destName # <<>> =>
                   /\ c.destName \in NamesFor(want)
                   /\ (prefix \o want) \notin DOMAIN dest => c.destName = prefix \o want]_vars

\* the episode URL was downloaded once under the title and once, for the
\* item without title, under the UUID
C14_Witness ==
    /\ pc = "loop" /\ Len(calls) = 2
    /\ items[1].url = UV /\ items[1].title = T1
    /\ items[2].url = UV /\ items[2].title = <<>>
    /\ calls[1].outcome = "marked" /\ calls[1].fetched
    /\ calls[1].destName = prefix \o T1 \o DotMp3
    /\ calls[2].outcome = "marked" /\ calls[2].fetched
    /\ calls[2].destName = prefix \o VendorID \o DotMp3

\* the last segment of the path of the URL u: u up to its first ?, and of
\* that the text after the last slash
urlPathLast(u) ==
    LET q     == IndexByte(u, "?")
        path  == IF q = -1 THEN u ELSE SubSeq(u, 1, q)
        slash == {k \in 1..Len(path) : path[k] = "/"}
    IN  IF slash = {} THEN path ELSE SubSeq(path, Max(slash) + 1, Len(path))

\* C15: for an item whose URL does not match the episode pattern the base
\* filename is the last segment of the URL's path, the query string
\* removed, also when the query string holds a slash: an empty, . or ..
\* segment is a naming error, and otherwise the destination is made of it.
C15_Claim ==
    [][(ItemStep /\ episodeIDRegexp(items[i + 1].url) = <<>>) =>
         LET c    == calls'[Len(calls')]
             want == urlPathLast(items[i + 1].url)
         IN  IF want \in {<<>>, <<".">>, <<".", ".">>}
             THEN c.outcome = "naming"
             ELSE /\ c.outcome # "naming"
                  /\ c.destName # <<>> => c.destName \in NamesFor(want)]_vars

\* C16: an item whose base filename is empty, . or .. fails with the naming
\* error and nothing else happens: no fetch, and the directory with its
\* markers and files stays as it was; every other item is no naming error
\* and the destination chosen for it is longer than the prefix.
C16_NamingError ==
    [][ItemStep =>
         LET it  == items[i + 1]
             c   == calls'[Len(calls')]
             bad == it.url \in {U5, UDots}
         IN  /\ bad => /\ c.outcome = "naming" /\ c.err /\ ~c.fetched
                       /\ c.destName = <<>>
                       /\ dest' = dest /\ seenTop' = seenTop
                       /\ feedDirs' = feedDirs /\ seenCur' = seenCur
             /\ ~bad => /\ c.outcome # "naming"
                        /\ c.destName # <<>> => Len(c.destName) > Len(prefix)]_vars

\* the item with the URL h/?q was refused with the naming error and the
\* item after it was downloaded
C16_Witness ==
    /\ pc = "loop" /\ Len(calls) = 2
    /\ items[1].url = U5
    /\ calls[1].outcome = "naming" /\ calls[1].err
    /\ calls[2].outcome = "marked" /\ calls[2].fetched
    /\ Len(calls[2].destName) > Len(prefix)

\* C19 as stated: two items of one feed with different guids have
\* different current-format marker paths, whatever the length of the guids,
\* and creating the marker of one does not create the marker of the other.
C19_Original ==
    [][ItemStep =>
         \A j \in 1..Len(items) :
            items[j].guid # items[i + 1].guid
               => /\ seenPathOf(feed, items[j].guid) # seenPathOf(feed, items[i + 1].guid)
                  /\ seenPathOf(feed, items[j].guid) \in seenCur'
                        <=> seenPathOf(feed, items[j].guid) \in seenCur]_vars

\* the escaped guid of the item is not cut by escape
FitsName(it) == Len(PathEscape(it.guid)) <= maxFilenameLen

\* C19: two items of one feed with different guids whose escaped forms are
\* at most maxFilenameLen characters long have different current-format
\* marker paths, and creating the marker of one does not create the marker
\* of the other.
C19_DistinctMarkers ==
    [][ItemStep =>
         \A j \in 1..Len(items) :
            (/\ items[j].guid # items[i + 1].guid
             /\ FitsName(items[j]) /\ FitsName(items[i + 1]))
               => /\ seenPathOf(feed, items[j].guid) # seenPathOf(feed, items[i + 1].guid)
                  /\ seenPathOf(feed, items[j].guid) \in seenCur'
                        <=> seenPathOf(feed, items[j].guid) \in seenCur]_vars

\* two items with different guids were marked one after the other, each
\* under its own marker
C19_Witness ==
    /\ pc = "loop" /\ Len(calls) = 2
    /\ items[1].guid # items[2].guid
    /\ FitsName(items[1]) /\ FitsName(items[2])
    /\ calls[1].outcome = "marked" /\ calls[2].outcome = "marked"
    /\ seenPathOf(feed, items[1].guid) \in seenCur
    /\ seenPathOf(feed, items[2].guid) \in seenCur
    /\ seenPathOf(feed, items[1].guid) # seenPathOf(feed, items[2].guid)

\* Guids that agree on their first maxFilenameLen escaped characters: the
\* second item is skipped because of the marker of the first (a reachable
\* state).
LongGuidsCollide ==
    /\ pc = "loop" /\ Len(calls) = 2
    /\ items[1].guid = GL1 /\ items[2].guid = GL2
    /\ calls[1].outcome = "marked" /\ calls[2].outcome = "skipped"

\* the files of the directory that a failed copy of the URL u left behind
PartialOf(u) == {n \in DOMAIN dest : dest[n] = [st |-> "partial", src |-> u]}

\* C20: a download whose copy fails leaves the partly written file in the
\* directory and writes no marker; a later download of the same URL leaves
\* that file as it is and saves the payload under the first unused numbered
\* name, so that the directory then holds the partial and the complete file.
C20_PartialKept ==
    [][ItemStep =>
         LET it == items[i + 1]
             c  == calls'[Len(calls')]
             b  == baseName(it)
         IN  /\ c.outcome = "copyerr"
                   => /\ c.destName \in DOMAIN dest'
                      /\ c.destName \notin DOMAIN dest
                      /\ dest'[c.destName] = [st |-> "partial", src |-> it.url]
                      /\ seenCur' = seenCur
                      /\ seenPathOf(feed, it.guid) \notin seenCur'
             /\ (c.outcome = "marked" /\ c.fetched /\ PartialOf(it.url) # {})
                   => /\ \A n \in PartialOf(it.url) :
                            /\ n # c.destName
                            /\ n \in DOMAIN dest' /\ dest'[n] = dest[n]
                      /\ dest'[c.destName] = [st |-> "full", src |-> it.url]
                      /\ \E k \in 0..Cardinality(DOMAIN dest) :
                            /\ c.destName = numbered(prefix, b, k)
                            /\ (prefix \o b) \in DOMAIN dest
                            /\ \A j \in 0..(k - 1) :
                                  numbered(prefix, b, j) \in DOMAIN dest]_vars

\* in the second run the item whose copy failed in the first was downloaded
\* and marked: the directory holds its partial file and its complete file
C20_Witness ==
    /\ run = 2 /\ pc = "loop" /\ calls # <<>>
    /\ LastCall.outcome = "marked" /\ LastCall.fetched
    /\ PartialOf(LastItem.url) # {}
    /\ <<feed, LastItem>> \in failedDl
    /\ LastCall.destName \in DOMAIN dest
    /\ dest[LastCall.destName] = [st |-> "full", src |-> LastItem.url]
    /\ seenPathOf(feed, LastItem.guid) \in seenCur

\* The earlier revision (src/unnamed/part_002) on the same documents: a URL
\* carried by two item containers gives one item, with the title of the
\* first of them when that container has a title.
Part002_Dedup ==
    (scanPc = "returned" /\ ~ret.err /\ doc = renderFeed(shapes))
        => LET old == getItemsPart002(doc, 1, scanInitPart002)
           IN  \A u \in {U1, U2, U3} :
                  Cardinality(CarryURL(shapes, u)) = 2
                     => LET got == {k \in 1..Len(old) : old[k].url = u}
                        IN  /\ Cardinality(got) = 1
                            /\ \A k \in got :
                                  shapes[Min(CarryURL(shapes, u))].title # <<>>
                                     => old[k].title
                                           = shapes[Min(CarryURL(shapes, u))].title

\* The earlier revision on a flat document with pairwise different URLs:
\* one item for each enclosure with a url attribute, in document order.
Part002_Flat ==
    (scanPc = "returned" /\ ~ret.err /\ FlatWithEnclosure /\ DistinctEnclosures(shapes))
        => LET old == getItemsPart002(doc, 1, scanInitPart002)
           IN  /\ Len(old) = Len(shapes)
               /\ \A k \in 1..Len(old) : old[k].url = shapes[k].url

\* the destination file of the running call is there and not complete
FilePartial ==
    /\ calls # <<>>
    /\ TheDestPath \in DOMAIN dest
    /\ dest[TheDestPath].st = "partial"

\* C17: within one call of downloadItem the current-format marker is
\* created only by the touch after the copy to the destination file has
\* completed and the file was closed, or after the download was skipped, or
\* when a marker was found; and wherever the call stands or is terminated
\* while the destination file is not complete, the marker is absent.
C17_MarkerAfterFile ==
    [][/\ (TheSeenPath \notin seenCur /\ TheSeenPath \in seenCur')
             => \/ /\ pc = "touch"
                   /\ skip \/ (/\ TheDestPath \in DOMAIN dest
                               /\ dest[TheDestPath].st = "full")
                \/ /\ pc = "stat"
                   /\ \E k \in 2..3 :
                         Stat(markerPaths(TheItem, feed, baseName(TheItem))[k], feedDirs)
       /\ FilePartial' => TheSeenPath \notin seenCur']_vars

\* the process was terminated with the destination file created and not
\* complete, and the item has no marker
C17_Witness ==
    /\ pc = "killed"
    /\ FilePartial
    /\ TheSeenPath \notin seenCur
    /\ ~skip

====
